---- MODULE Spec2Model ----
(***************************************************************************)
(* Machine Guard core: the per-device calibration-to-monitoring lifecycle  *)
(* of machine_guard_core.py (DeviceManager, MachineGuardSystem.run).       *)
(*                                                                         *)
(* Abstractions.  Time is whole seconds.  A reading carries its timestamp  *)
(* and, while MONITORING, the raw decision_function score the fitted model *)
(* gives it (the model is a black box).  A row of the training CSV is      *)
(* <<c, k>>: the k-th reading handed to process_reading since the c-th     *)
(* start_calibration of the device, with a third component "text" when a   *)
(* sensor field of the reading holds text.  A pickled artifact is          *)
(* identified by the training cycle that wrote it.  Scores, anchors and    *)
(* health values are integers chosen so that the interpolation is exact.   *)
(*                                                                         *)
(* Specifications.  Spec: one process run fed complete readings.           *)
(* SpecRestart: the same with process restarts.  SpecMalformed: the same   *)
(* fed readings with missing or text fields as well.  SpecPersisted: a     *)
(* process started on the files of an earlier run.  SpecHealth: map_health *)
(* applied to every raw score under every anchor pair.  SpecTwo: two       *)
(* devices in the data tree, train_model taking time.  SpecLive: Spec      *)
(* under weak fairness of the processing of fresh readings.  SpecContrib:  *)
(* analyze_sensor_contribution and the payload on every reading and        *)
(* baseline of a small grid.  SpecBoundary: MQTTClient._on_message of      *)
(* backend/mqtt_client.py on every shape of payload.                       *)
(***************************************************************************)
EXTENDS Integers, Sequences, FiniteSets, TLC

\* ---------------------------------------------------------------- constants
CALIBRATION_SAMPLES == 100
MAX_CALIBRATION_TIME == 300
HISTORY_MAXLEN == 3

\* ------------------------------------------------------------------- bounds
MaxNow == 302
MaxCal == 2
MaxScored == 4
MaxRestarts == 1
MaxRaw == 11

DeviceIds == {"esp32_Machine_1", "device2"}
None == "None"
NoTime == 0
LifecycleStates == {"NEW", "CALIBRATING", "MONITORING"}
TsValues == {"t1", "t2"}
\* the order of the timestamps: t1 is earlier than t2, None earlier than both
TsRank(ts) == CASE ts = "t1" -> 1 [] ts = "t2" -> 2 [] OTHER -> 0
Delays == {MAX_CALIBRATION_TIME, MAX_CALIBRATION_TIME + 1}
StallRows == {0, 1, 80}
Scores == {-5, -1, 8}
TrainedAnchors == {<<-10, 10>>}
\* the raw scores and the anchor pairs map_health is applied to on its own: a
\* fitted IsolationForest's percentiles give min_anom <= 0 <= max_nice, a
\* calibration file can hold any pair
RawScores == (0 - MaxRaw)..MaxRaw
AnchorValues == {-10, -5, -2, 0, 2, 5, 10}

VARIABLES
  now,        \* time.time()
  alive,      \* the run() loop has not been left by an exception
  online,     \* the device ids present in the polled data tree
  files,      \* models/<device>_{state.json,training.csv,model.pkl,scaler.pkl,calibration.json}
  devices,    \* MachineGuardSystem.devices: the ids that have a DeviceManager
  mgr,        \* the fields of each DeviceManager
  published,  \* number of payloads handed to mqtt_client.publish, per device
  hist,       \* bookkeeping per device: calibrations started, readings fed, ...
  restarts,   \* bookkeeping: number of process restarts so far
  ev,         \* bookkeeping: what the last step did
  busy,       \* the iteration run() is inside of while train_model runs, or Idle
  report,     \* analyze_sensor_contribution and the payload: inputs and results
  boundary    \* MQTTClient._on_message: the last message and what became of it

vars == <<now, alive, online, files, devices, mgr, published, hist, restarts, ev, busy,
          report, boundary>>

\* run() is between two iterations of its for loop
Idle == <<>>

\* no contribution analysis has run, no message has arrived
NoReport == [op |-> "none"]
NoMessage == [op |-> "none"]

\* ------------------------------------------------------------ file contents
Absent == [exists |-> FALSE, valid |-> FALSE, cycle |-> 0, min_anom |-> 0, max_nice |-> 0]
Corrupt == [exists |-> TRUE, valid |-> FALSE, cycle |-> 0, min_anom |-> 0, max_nice |-> 0]
Pickle(k) == [exists |-> TRUE, valid |-> TRUE, cycle |-> k, min_anom |-> 0, max_nice |-> 0]
CalibJson(k, a) == [exists |-> TRUE, valid |-> TRUE, cycle |-> k, min_anom |-> a[1], max_nice |-> a[2]]

NoCsv == [exists |-> FALSE, header |-> FALSE, rows |-> <<>>]
EmptyCsv == [exists |-> TRUE, header |-> TRUE, rows |-> <<>>]

NoFiles ==
  [state_file |-> "ABSENT", training_file |-> NoCsv, model_file |-> Absent,
   scaler_file |-> Absent, calibration_file |-> Absent]

\* open(path, 'w') + dump under an I/O fault: "eopen" fails before the file is
\* truncated, "etrunc" after
WriteFile(old, new, fault) ==
  CASE fault = "ok" -> new
    [] fault = "eopen" -> old
    [] OTHER -> Corrupt

\* At most one injected fault per processed reading: a step of train_model
\* (TrainFaults), a load of load_artifacts (LoadFaults), a write of the state
\* file ("<site>_eopen", "<site>_etrunc"), the creation of the training CSV
\* ("csv"), an append to it ("append"), the scoring of a sample ("score").
TrainFaults ==
  {"scale", "scaler_eopen", "scaler_etrunc", "fit", "model_eopen", "model_etrunc",
   "stats", "calib_eopen", "calib_etrunc"}
LoadFaults == {"load_model", "load_scaler", "load_calib"}
\* the fault, if any, that hits the write of the state file at call site `site`
SaveFaultAt(fault, site) ==
  IF fault = site \o "_eopen" THEN "eopen"
  ELSE IF fault = site \o "_etrunc" THEN "etrunc"
  ELSE "ok"

\* --------------------------------------------------------- DeviceManager
\* A world is what one call works on: the manager's fields (m), the device's
\* files (f), its publish count (pub), whether an exception is propagating
\* (exc) and the bookkeeping of the step (h, trained, trainedOn, loaded, gate,
\* risk, health, raw) and the kind of the reading being processed (kind).

load_state(f) ==
  IF f.state_file \in LifecycleStates THEN f.state_file
  ELSE IF f.model_file.exists /\ f.scaler_file.exists THEN "MONITORING"
  ELSE "NEW"

save_state(w, new_state, fault) ==
  [w EXCEPT !.m.state = new_state,
            !.f.state_file = IF fault = "ok" THEN new_state
                             ELSE IF fault = "eopen" THEN @ ELSE "CORRUPT",
            !.exc = (fault # "ok")]

\* mutant: a failed load leaves the state as it is
load_artifacts_KeepState(w, fault) ==
  LET okM == w.f.model_file.valid /\ fault # "load_model"
      okS == w.f.scaler_file.valid /\ fault # "load_scaler"
      okC == w.f.calibration_file.valid /\ fault # "load_calib"
      w1 == IF okM THEN [w EXCEPT !.m.model = w.f.model_file] ELSE w
      w2 == IF okM /\ okS THEN [w1 EXCEPT !.m.scaler = w.f.scaler_file] ELSE w1
      w3 == IF okM /\ okS /\ okC
            THEN [w2 EXCEPT !.m.score_mapping = w.f.calibration_file] ELSE w2
  IN IF okM /\ okS /\ okC THEN [w3 EXCEPT !.loaded = "ok"]
     ELSE [w3 EXCEPT !.loaded = "failed"]

load_artifacts(w, fault) ==
  LET okM == w.f.model_file.valid /\ fault # "load_model"
      okS == w.f.scaler_file.valid /\ fault # "load_scaler"
      okC == w.f.calibration_file.valid /\ fault # "load_calib"
      w1 == IF okM THEN [w EXCEPT !.m.model = w.f.model_file] ELSE w
      w2 == IF okM /\ okS THEN [w1 EXCEPT !.m.scaler = w.f.scaler_file] ELSE w1
      w3 == IF okM /\ okS /\ okC
            THEN [w2 EXCEPT !.m.score_mapping = w.f.calibration_file] ELSE w2
  IN IF okM /\ okS /\ okC THEN [w3 EXCEPT !.loaded = "ok"]
     ELSE save_state([w3 EXCEPT !.loaded = "failed"], "NEW", SaveFaultAt(fault, "loadnew"))

\* mutant: the training CSV of the previous calibration is not reset
start_calibration_KeepRows(w, t, fault) ==
  IF fault = "csv"
  THEN [w EXCEPT !.f.training_file = NoCsv, !.exc = TRUE]
  ELSE save_state([w EXCEPT !.f.training_file = IF @.exists THEN @ ELSE EmptyCsv,
                            !.m.calibration_start_time = t,
                            !.h.cals = @ + 1, !.h.fed = 0, !.h.started = t],
                  "CALIBRATING", SaveFaultAt(fault, "start"))

start_calibration(w, t, fault) ==
  IF fault = "csv"
  THEN [w EXCEPT !.f.training_file = NoCsv, !.exc = TRUE]
  ELSE save_state([w EXCEPT !.f.training_file = EmptyCsv,
                            !.m.calibration_start_time = t,
                            !.h.cals = @ + 1, !.h.fed = 0, !.h.started = t],
                  "CALIBRATING", SaveFaultAt(fault, "start"))

\* mutant: the row is written at the top of the file
append_training_data_Front(w, row, fault) ==
  IF fault = "append" THEN [w EXCEPT !.exc = TRUE]
  ELSE [w EXCEPT !.f.training_file =
          [exists |-> TRUE, header |-> @.header, rows |-> <<row>> \o @.rows]]

append_training_data(w, row, fault) ==
  IF fault = "append" THEN [w EXCEPT !.exc = TRUE]
  ELSE [w EXCEPT !.f.training_file =
          [exists |-> TRUE, header |-> @.header, rows |-> Append(@.rows, row)]]

\* the step of train_model at which the injected fault strikes (7: none)
FailStep(tf) ==
  CASE tf = "scale" -> 1
    [] tf \in {"scaler_eopen", "scaler_etrunc"} -> 2
    [] tf = "fit" -> 3
    [] tf \in {"model_eopen", "model_etrunc"} -> 4
    [] tf = "stats" -> 5
    [] tf \in {"calib_eopen", "calib_etrunc"} -> 6
    [] OTHER -> 7

\* joblib.dump / json.dump at step `step` of a training whose fault strikes at `at`
Dumped(old, new, step, at, tf) ==
  IF at > step THEN new
  ELSE IF at < step THEN old
  ELSE WriteFile(old, new, IF tf \in {"scaler_eopen", "model_eopen", "calib_eopen"}
                           THEN "eopen" ELSE "etrunc")

\* df: the rows read back from the training CSV (a CSV written without its
\* header line has no FEATURES columns: df[FEATURES] raises; a row holding
\* text makes fit_transform raise)
train_model(w, df, fault, anchors) ==
  LET k == w.h.cycles + 1
      tf == fault
      text == \E i \in 1..Len(df) : Len(df[i]) > 2
      at == IF ~w.f.training_file.header \/ text THEN 1 ELSE FailStep(tf)
      w1 == [w EXCEPT !.h.cycles = k,
                      !.trained = IF at = 7 THEN "ok" ELSE "failed",
                      !.trainedOn = df,
                      !.f.scaler_file = Dumped(@, Pickle(k), 2, at, tf),
                      !.f.model_file = Dumped(@, Pickle(k), 4, at, tf),
                      !.f.calibration_file = Dumped(@, CalibJson(k, anchors), 6, at, tf)]
  IN IF at = 7 THEN w1
     ELSE save_state(w1, "NEW", "ok")

\* mutant: the sample target is compared with > instead of >=
CalibrationDone_OffByOne(count, elapsed) ==
  count > CALIBRATION_SAMPLES \/ elapsed > MAX_CALIBRATION_TIME

\* mutant: the wall-clock ceiling is not checked
CalibrationDone_NoCeiling(count, elapsed) ==
  count >= CALIBRATION_SAMPLES

CalibrationDone(count, elapsed) ==
  count >= CALIBRATION_SAMPLES \/ elapsed > MAX_CALIBRATION_TIME

handle_calibration(w, row, t, fault, anchors) ==
  LET w1 == append_training_data(w, row, fault)
      csv == w1.f.training_file
      df == IF csv.header THEN csv.rows ELSE Tail(csv.rows)
      count == Len(df)
      start == w1.m.calibration_start_time
      elapsed == t - (IF start # NoTime THEN start ELSE t)
      w2 == train_model(w1, df, fault, anchors)
      w3 == save_state(w2, "MONITORING", SaveFaultAt(fault, "monitoring"))
      w4 == load_artifacts(w3, fault)
      caught(x) == [x EXCEPT !.exc = FALSE]
  IN IF w1.exc THEN w1
     ELSE IF ~CalibrationDone(count, elapsed) THEN w1
     ELSE IF w2.exc THEN caught(w2)
     ELSE IF w3.exc THEN caught(w3)
     ELSE caught(w4)

\* numpy.interp(x, xp, fp) for three points: outside [xp[1], xp[3]] the end
\* values; inside, a linear search for the last j with xp[j] <= x
np_interp(x, xp, fp) ==
  IF x > xp[3] THEN fp[3]
  ELSE IF x < xp[1] THEN fp[1]
  ELSE LET j == IF x >= xp[2] THEN (IF x >= xp[3] THEN 3 ELSE 2) ELSE 1
       IN IF j = 3 THEN fp[3]
          ELSE IF xp[j] = x THEN fp[j]
          ELSE fp[j] + ((fp[j + 1] - fp[j]) * (x - xp[j])) \div (xp[j + 1] - xp[j])

\* mutant: the middle anchor is the midpoint of the two percentiles, not 0.0
map_health_MidAnchor(score_mapping, raw_score) ==
  np_interp(raw_score,
            <<score_mapping.min_anom,
              (score_mapping.min_anom + score_mapping.max_nice) \div 2,
              score_mapping.max_nice>>,
            <<0, 50, 100>>)

\* mutant: the health values are listed from healthy to anomalous
map_health_Inverted(score_mapping, raw_score) ==
  np_interp(raw_score, <<score_mapping.min_anom, 0, score_mapping.max_nice>>, <<100, 50, 0>>)

map_health(score_mapping, raw_score) ==
  np_interp(raw_score, <<score_mapping.min_anom, 0, score_mapping.max_nice>>, <<0, 50, 100>>)

risk_logic(health) ==
  IF health < 30 THEN "CRITICAL"
  ELSE IF health < 60 THEN "WARNING"
  ELSE "NORMAL"

\* classify_risk of monitor.py and firebase_monitor.py
classify_risk(health_score) ==
  IF health_score > 80 THEN "NORMAL"
  ELSE IF 50 < health_score /\ health_score <= 80 THEN "WARNING"
  ELSE "CRITICAL"

\* mutant: the deque has no maxlen
deque_append_Unbounded(q, x) == Append(q, x)

\* deque(maxlen=3).append
deque_append(q, x) ==
  IF Len(q) < HISTORY_MAXLEN THEN Append(q, x) ELSE Append(Tail(q), x)

is_persistent_crit(health_history) ==
  /\ Len(health_history) = 3
  /\ \A i \in 1..Len(health_history) : health_history[i] < 50

\* mutant: the WARNING rule is level-triggered
should_publish_mqtt_Level(risk, health_history, last_risk) ==
  IF risk = "CRITICAL" /\ is_persistent_crit(health_history) THEN TRUE
  ELSE IF risk = "WARNING" THEN TRUE
  ELSE IF risk = "NORMAL" /\ last_risk # "NORMAL" THEN TRUE
  ELSE FALSE

should_publish_mqtt(risk, health_history, last_risk) ==
  IF risk = "CRITICAL" /\ is_persistent_crit(health_history) THEN TRUE
  ELSE IF risk = "WARNING" /\ last_risk # "WARNING" THEN TRUE
  ELSE IF risk = "NORMAL" /\ last_risk # "NORMAL" THEN TRUE
  ELSE FALSE

\* mutant: last_risk follows the notified risk only
next_last_risk_OnNotify(risk, decision, last_risk) ==
  IF decision THEN risk ELSE last_risk

\* the risk remembered for the next edge check
next_last_risk(risk, decision, last_risk) == risk

\* the number of payloads the reading hands to mqtt_client.publish
publish_count(decision) == 1

\* sensor_buffer is a deque(maxlen=1): the smoothed sample is the reading (a
\* field holding text raises before the sample is scored)
handle_monitoring(w, raw, fault) ==
  IF ~w.m.model.valid THEN w
  ELSE
    LET w0 == [w EXCEPT !.h.scored = @ + 1]
        health == map_health(w.m.score_mapping, raw)
        risk == risk_logic(health)
        hh == deque_append(w.m.health_history, health)
        decision == should_publish_mqtt(risk, hh, w.m.last_risk)
    IN IF \/ ~w.m.scaler.valid \/ fault = "score" \/ ~w.m.score_mapping.valid
          \/ w.kind = "non_numeric"
       THEN w0
       ELSE [w0 EXCEPT !.h.last_class = risk,
                       !.prev_class = w.h.last_class,
                       !.m.health_history = hh,
                       !.m.last_risk = next_last_risk(risk, decision, @),
                       !.pub = @ + publish_count(decision),
                       !.gate = IF decision THEN "notify" ELSE "suppress",
                       !.risk = risk,
                       !.health = health,
                       !.raw = raw]

\* the reading being processed: the k-th handed over since the c-th start_calibration
ReadingId(w) == <<w.h.cals, w.h.fed + 1>>

\* reading.get(field, 0): a missing field becomes 0, a field holding text is
\* kept as it is (the third component of the row)
mapped_reading(w) ==
  IF w.kind = "non_numeric" THEN Append(ReadingId(w), "text") ELSE ReadingId(w)

process_reading(w, raw, t, fault, anchors) ==
  IF w.m.state = "NEW"
  THEN LET w1 == start_calibration(w, t, fault)
           w2 == [w1 EXCEPT !.h.fed = 1]
       IN IF w1.exc THEN w1 ELSE append_training_data(w2, mapped_reading(w1), fault)
  ELSE IF w.m.state = "CALIBRATING"
  THEN handle_calibration([w EXCEPT !.h.fed = @ + 1], mapped_reading(w), t, fault, anchors)
  ELSE IF w.m.state = "MONITORING" THEN handle_monitoring(w, raw, fault)
  ELSE w

\* DeviceManager.__init__
NoManager ==
  [state |-> "NEW", calibration_start_time |-> NoTime, model |-> Absent, scaler |-> Absent,
   score_mapping |-> Absent, last_processed_ts |-> None, health_history |-> <<>>,
   last_risk |-> "NORMAL"]

\* bookkeeping of a device: start_calibration calls, readings handed over since
\* the last one and its time, train_model calls, readings that reached the
\* scoring pipeline; for the current manager, the timestamp of the last reading
\* handed to process_reading and the last risk classification
NoHist ==
  [cals |-> 0, fed |-> 0, started |-> NoTime, cycles |-> 0, scored |-> 0,
   last_ts |-> None, last_class |-> "NORMAL"]

World(d) ==
  [m |-> mgr[d], f |-> files[d], pub |-> published[d], h |-> hist[d], exc |-> FALSE,
   trained |-> "none", trainedOn |-> <<>>, gate |-> "n/a", risk |-> "n/a", health |-> 0,
   prev_class |-> "n/a", raw |-> 0, loaded |-> "none", kind |-> "complete"]

DeviceManager(d, fault) ==
  LET w == [World(d) EXCEPT !.m = [NoManager EXCEPT !.state = load_state(files[d])]]
  IN IF w.m.state = "MONITORING" THEN load_artifacts(w, fault) ELSE w

\* ------------------------------------------------ MachineGuardSystem.run
\* the registry lookup of one loop iteration
Registered(d, fault) == IF d \in devices THEN World(d) ELSE DeviceManager(d, fault)

RegFaults(d) ==
  IF d \notin devices /\ load_state(files[d]) = "MONITORING"
  THEN {"none", "loadnew_eopen", "loadnew_etrunc"} \cup LoadFaults
  ELSE {"none"}

WillTrain(w, t) ==
  LET csv == w.f.training_file
      start == w.m.calibration_start_time
  IN CalibrationDone(Len(csv.rows) + (IF csv.header THEN 1 ELSE 0),
                     t - (IF start # NoTime THEN start ELSE t))

\* the faults that can strike while w's manager processes a reading at time t
FaultsFor(w, t) ==
  CASE w.m.state = "NEW" -> {"none", "csv", "start_eopen", "start_etrunc", "append"}
    [] w.m.state = "CALIBRATING" ->
         {"none", "append"} \cup
         (IF WillTrain(w, t)
          THEN TrainFaults \cup LoadFaults \cup {"monitoring_eopen", "monitoring_etrunc"}
          ELSE {})
    [] OTHER -> IF w.m.model.valid THEN {"none", "score"} ELSE {"none"}

AnchorsFor(w, t) ==
  IF w.m.state = "CALIBRATING" /\ WillTrain(w, t)
  THEN TrainedAnchors ELSE {<<0, 0>>}

ScoresFor(w) ==
  IF w.m.state = "MONITORING" /\ w.m.model.valid THEN Scores ELSE {0}

\* the bounds of the exploration
WithinBounds(w) ==
  /\ w.m.state = "NEW" => w.h.cals < MaxCal
  /\ (w.m.state = "MONITORING" /\ w.m.model.valid) => w.h.scored < MaxScored

Event(op, d, ts, fault, pre, w) ==
  [op |-> op, dev |-> d, ts |-> ts, fault |-> fault, pre |-> pre, post |-> w.m.state,
   crashed |-> w.exc, trained |-> w.trained, trainedOn |-> w.trainedOn, gate |-> w.gate,
   risk |-> w.risk, prev_class |-> w.prev_class, health |-> w.health,
   pubs |-> w.pub - published[d], raw |-> w.raw, loaded |-> w.loaded, kind |-> w.kind]

\* mutant: the file names lack the device id, all devices use the same files
Commit_SharedFiles(op, d, ts, fault, pre, w) ==
  /\ alive' = ~w.exc
  /\ files' = [x \in DeviceIds |-> w.f]
  /\ hist' = [hist EXCEPT ![d] = w.h]
  /\ published' = [published EXCEPT ![d] = w.pub]
  /\ devices' = IF w.exc /\ op = "construct" THEN devices ELSE devices \cup {d}
  /\ mgr' = IF w.exc /\ op = "construct" THEN mgr ELSE [mgr EXCEPT ![d] = w.m]
  /\ ev' = Event(op, d, ts, fault, pre, w)
  /\ UNCHANGED <<now, online, restarts, report, boundary>>

\* the effect of one iteration of the for loop whose result is the world w
Commit(op, d, ts, fault, pre, w) ==
  /\ alive' = ~w.exc
  /\ files' = [files EXCEPT ![d] = w.f]
  /\ hist' = [hist EXCEPT ![d] = w.h]
  /\ published' = [published EXCEPT ![d] = w.pub]
  \* an exception in the constructor leaves the registry without the device
  /\ devices' = IF w.exc /\ op = "construct" THEN devices ELSE devices \cup {d}
  /\ mgr' = IF w.exc /\ op = "construct" THEN mgr ELSE [mgr EXCEPT ![d] = w.m]
  /\ ev' = Event(op, d, ts, fault, pre, w)
  /\ UNCHANGED <<now, online, restarts, report, boundary>>

\* ts_str missing: `continue`
DeliverNoTimestamp(d) ==
  /\ alive /\ d \in online
  /\ busy = Idle /\ UNCHANGED busy
  /\ \E rf \in RegFaults(d) :
       LET w == Registered(d, rf)
       IN Commit(IF w.exc THEN "construct" ELSE "no_timestamp", d, None, rf, w.m.state, w)

\* mutant: the duplicate check matches every timestamp
IsDuplicate_Always(last_processed, ts_str) == TRUE

\* mutant: the duplicate check never matches
IsDuplicate_Never(last_processed, ts_str) == FALSE

\* ts_str equal to last_processed_ts: `continue`
IsDuplicate(last_processed, ts_str) == last_processed = ts_str

\* one iteration of the for loop on a reading of the given kind that has a
\* timestamp
Iteration(d, ts, kind) ==
  /\ alive /\ d \in online
  /\ \E rf \in RegFaults(d) :
       LET w0 == [Registered(d, rf) EXCEPT !.kind = kind]
       IN IF w0.exc THEN Commit("construct", d, ts, rf, w0.m.state, w0)
          ELSE IF IsDuplicate(w0.m.last_processed_ts, ts)
          THEN Commit("duplicate", d, ts, rf, w0.m.state, w0)
          ELSE /\ WithinBounds(w0)
               /\ \E raw \in ScoresFor(w0), fault \in FaultsFor(w0, now),
                     anchors \in AnchorsFor(w0, now) :
                    Commit("process", d, ts, fault, w0.m.state,
                           process_reading([w0 EXCEPT !.m.last_processed_ts = ts,
                                                      !.h.last_ts = ts],
                                           raw, now, fault, anchors))

\* a reading with a timestamp and five numeric sensor fields
Deliver(d, ts) ==
  /\ busy = Idle /\ UNCHANGED busy
  /\ Iteration(d, ts, "complete")

\* a reading with a timestamp of which a sensor field is missing
\* ("incomplete") or holds text ("non_numeric"); the exploration feeds them to
\* a calibrating device only at the StallRows row counts
MalformedKinds == {"incomplete", "non_numeric"}

DeliverMalformed(d, ts, kind) ==
  /\ files[d].state_file = "CALIBRATING"
       => Len(files[d].training_file.rows) \in StallRows
  /\ busy = Idle /\ UNCHANGED busy
  /\ Iteration(d, ts, kind)

\* time passes; the exploration lets the clock jump only while each device's
\* training CSV holds a number of rows in StallRows
Tick(dt) ==
  /\ now + dt <= MaxNow
  /\ \A d \in online : Len(files[d].training_file.rows) \in StallRows
  /\ now' = now + dt
  /\ ev' = [ev EXCEPT !.op = "tick"]
  /\ UNCHANGED <<alive, online, files, devices, mgr, published, hist, restarts, busy,
                 report, boundary>>

\* the process is started again: the files stay, the objects are gone; the
\* exploration restarts a calibrating device only at the StallRows row counts
Restart ==
  /\ restarts < MaxRestarts
  /\ \A d \in online :
       files[d].state_file = "CALIBRATING" => Len(files[d].training_file.rows) \in StallRows
  /\ restarts' = restarts + 1
  /\ alive' = TRUE
  /\ devices' = {}
  /\ mgr' = [d \in DeviceIds |-> NoManager]
  /\ hist' = [d \in DeviceIds |->
                [hist[d] EXCEPT !.last_ts = None, !.last_class = "NORMAL"]]
  /\ ev' = [ev EXCEPT !.op = "restart"]
  /\ busy' = Idle
  /\ UNCHANGED <<now, online, files, published, report, boundary>>

Init ==
  /\ now = 1
  /\ alive = TRUE
  /\ online = {"esp32_Machine_1"}
  /\ files = [d \in DeviceIds |-> NoFiles]
  /\ devices = {}
  /\ mgr = [d \in DeviceIds |-> NoManager]
  /\ published = [d \in DeviceIds |-> 0]
  /\ hist = [d \in DeviceIds |-> NoHist]
  /\ restarts = 0
  /\ busy = Idle
  /\ report = NoReport
  /\ boundary = NoMessage
  /\ ev = [op |-> "init", dev |-> None, ts |-> None, fault |-> "none", pre |-> "NEW",
           post |-> "NEW", crashed |-> FALSE, trained |-> "none", trainedOn |-> <<>>,
           gate |-> "n/a", risk |-> "n/a", prev_class |-> "n/a", health |-> 0, pubs |-> 0,
           raw |-> 0, loaded |-> "none", kind |-> "complete"]

Next ==
  \/ \E d \in DeviceIds : DeliverNoTimestamp(d)
  \/ \E d \in DeviceIds, ts \in TsValues : Deliver(d, ts)
  \/ \E dt \in Delays : Tick(dt)

Spec == Init /\ [][Next]_vars

\* the same program, killed and started again at most MaxRestarts times
NextRestart == Next \/ Restart

SpecRestart == Init /\ [][NextRestart]_vars

\* ------------------------------------------- readings that keep arriving
\* an iteration that run() survives; the exploration lets a failure strike
\* only before the last calibration it follows has started
DeliverLive(d, ts) ==
  /\ Deliver(d, ts)
  /\ alive'
  /\ hist'[d].cals >= MaxCal => ev'.fault = "none"

\* a reading with a timestamp other than the last one is processed and nothing
\* fails
FreshReading(d) ==
  \E ts \in TsValues :
    /\ Deliver(d, ts)
    /\ alive'
    /\ ev'.op = "process" /\ ev'.fault = "none"

NextLive ==
  \/ \E d \in DeviceIds : DeliverNoTimestamp(d)
  \/ \E d \in DeviceIds, ts \in TsValues : DeliverLive(d, ts)
  \/ \E dt \in Delays : Tick(dt)

\* ENABLED <<FreshReading(d)>>_vars written out: the loop runs, the device is
\* in the data tree, and the exploration still follows its manager
FreshEnabled(d) ==
  /\ alive /\ busy = Idle /\ d \in online
  /\ LET w == Registered(d, "none")
     IN /\ ~w.exc
        /\ WithinBounds(w)
        /\ \E ts \in TsValues : ~IsDuplicate(w.m.last_processed_ts, ts)

\* the polled data tree keeps bringing fresh readings of every device, and
\* failures do not go on forever: WF_vars(FreshReading(d)) for every device,
\* in the form []<>~ENABLED <<A>>_vars \/ []<><<A>>_vars
SpecLive ==
  /\ Init
  /\ [][NextLive]_vars
  /\ \A d \in DeviceIds :
       []<>(~FreshEnabled(d)) \/ []<><<FreshReading(d)>>_vars

\* ------------------------------------------------------------ two devices
\* run() enters the iteration of a registered CALIBRATING device whose reading
\* completes the calibration: train_model starts
BeginTraining(d, ts) ==
  /\ alive /\ busy = Idle
  /\ d \in online /\ d \in devices
  /\ mgr[d].state = "CALIBRATING"
  /\ ~IsDuplicate(mgr[d].last_processed_ts, ts)
  /\ WillTrain(World(d), now)
  /\ busy' = <<d, ts>>
  /\ ev' = [ev EXCEPT !.op = "training", !.dev = d, !.ts = ts]
  /\ UNCHANGED <<now, alive, online, files, devices, mgr, published, hist, restarts,
                 report, boundary>>

\* train_model returns and the iteration completes
EndTraining ==
  /\ busy # Idle
  /\ Iteration(busy[1], busy[2], "complete")
  /\ busy' = Idle

\* the process starts with two devices in the data tree: the first with the
\* artifacts of a training provided in the models directory and no state file
\* ("Found existing artifacts. Skipping calibration"), the second unknown;
\* the exploration follows the first for one scored reading and the second
\* through one calibration
InitTwo ==
  /\ now = 1
  /\ alive = TRUE
  /\ online = DeviceIds
  /\ files = [d \in DeviceIds |->
                IF d = "esp32_Machine_1"
                THEN [NoFiles EXCEPT
                        !.model_file = Pickle(1), !.scaler_file = Pickle(1),
                        !.calibration_file = CalibJson(1, <<-10, 10>>)]
                ELSE NoFiles]
  /\ devices = {}
  /\ mgr = [d \in DeviceIds |-> NoManager]
  /\ published = [d \in DeviceIds |-> 0]
  /\ hist = [d \in DeviceIds |->
               IF d = "esp32_Machine_1"
               THEN [NoHist EXCEPT !.cals = MaxCal, !.cycles = 1, !.scored = MaxScored - 1]
               ELSE [NoHist EXCEPT !.cals = MaxCal - 1]]
  /\ restarts = 0
  /\ busy = Idle
  /\ report = NoReport
  /\ boundary = NoMessage
  /\ ev = [op |-> "init", dev |-> None, ts |-> None, fault |-> "none", pre |-> "NEW",
           post |-> "NEW", crashed |-> FALSE, trained |-> "none", trainedOn |-> <<>>,
           gate |-> "n/a", risk |-> "n/a", prev_class |-> "n/a", health |-> 0, pubs |-> 0,
           raw |-> 0, loaded |-> "none", kind |-> "complete"]

NextTwo ==
  \/ Next
  \/ \E d \in DeviceIds, ts \in TsValues : BeginTraining(d, ts)
  \/ EndTraining

SpecTwo == InitTwo /\ [][NextTwo]_vars

\* the same program fed malformed readings as well
NextMalformed ==
  \/ Next
  \/ \E d \in DeviceIds, ts \in TsValues, kind \in MalformedKinds : DeliverMalformed(d, ts, kind)

SpecMalformed == Init /\ [][NextMalformed]_vars

\* ------------------------------------- a start on the files of an earlier run
\* the artifact files one training left behind, at most one of them since lost
\* or damaged
PersistedArtifacts ==
  LET intact == <<Pickle(1), Pickle(1), CalibJson(1, <<-10, 10>>)>>
  IN {intact} \cup {[intact EXCEPT ![i] = damaged] : i \in 1..3, damaged \in {Absent, Corrupt}}

\* the process starts on a models directory that holds the training CSV and the
\* artifacts of a finished calibration, the state file saying MONITORING or
\* missing
InitPersisted ==
  /\ now = 1
  /\ alive = TRUE
  /\ online = {"esp32_Machine_1"}
  /\ \E sf \in {"MONITORING", "ABSENT"}, a \in PersistedArtifacts :
       files = [d \in DeviceIds |->
                  IF d \in online
                  THEN [state_file |-> sf,
                        training_file |->
                          [exists |-> TRUE, header |-> TRUE,
                           rows |-> [k \in 1..CALIBRATION_SAMPLES |-> <<1, k>>]],
                        model_file |-> a[1], scaler_file |-> a[2],
                        calibration_file |-> a[3]]
                  ELSE NoFiles]
  /\ devices = {}
  /\ mgr = [d \in DeviceIds |-> NoManager]
  /\ published = [d \in DeviceIds |-> 0]
  /\ hist = [d \in DeviceIds |->
               IF d \in online
               THEN [NoHist EXCEPT !.cals = 1, !.fed = CALIBRATION_SAMPLES, !.cycles = 1]
               ELSE NoHist]
  /\ restarts = 0
  /\ busy = Idle
  /\ report = NoReport
  /\ boundary = NoMessage
  /\ ev = [op |-> "init", dev |-> None, ts |-> None, fault |-> "none", pre |-> "NEW",
           post |-> "NEW", crashed |-> FALSE, trained |-> "none", trainedOn |-> <<>>,
           gate |-> "n/a", risk |-> "n/a", prev_class |-> "n/a", health |-> 0, pubs |-> 0,
           raw |-> 0, loaded |-> "none", kind |-> "complete"]

SpecPersisted == InitPersisted /\ [][Next]_vars

\* ------------------------------------------------ map_health on its own
\* a manager with the artifacts of one training loaded, for each anchor pair
InitHealth ==
  /\ now = 1
  /\ alive = TRUE
  /\ online = {"esp32_Machine_1"}
  /\ files = [d \in DeviceIds |-> NoFiles]
  /\ devices = {"esp32_Machine_1"}
  /\ \E lo \in AnchorValues, hi \in AnchorValues :
       mgr = [d \in DeviceIds |->
                IF d \in online
                THEN [NoManager EXCEPT !.state = "MONITORING", !.model = Pickle(1),
                                       !.scaler = Pickle(1),
                                       !.score_mapping = CalibJson(1, <<lo, hi>>)]
                ELSE NoManager]
  /\ published = [d \in DeviceIds |-> 0]
  /\ hist = [d \in DeviceIds |-> NoHist]
  /\ restarts = 0
  /\ busy = Idle
  /\ report = NoReport
  /\ boundary = NoMessage
  /\ ev = [op |-> "init", dev |-> None, ts |-> None, fault |-> "none", pre |-> "NEW",
           post |-> "NEW", crashed |-> FALSE, trained |-> "none", trainedOn |-> <<>>,
           gate |-> "n/a", risk |-> "n/a", prev_class |-> "n/a", health |-> 0, pubs |-> 0,
           raw |-> 0, loaded |-> "none", kind |-> "complete"]

\* self.map_health(raw_score)
MapHealth(d, raw_score) ==
  /\ d \in devices /\ mgr[d].score_mapping.valid
  /\ ev' = [ev EXCEPT !.op = "map_health", !.dev = d, !.raw = raw_score,
                      !.health = map_health(mgr[d].score_mapping, raw_score)]
  /\ UNCHANGED <<now, alive, online, files, devices, mgr, published, hist, restarts, busy,
                 report, boundary>>

NextHealth == \E d \in DeviceIds, raw_score \in RawScores : MapHealth(d, raw_score)

SpecHealth == InitHealth /\ [][NextHealth]_vars

\* ------------------------------- analyze_sensor_contribution and the payload
FEATURES == <<"temperature", "humidity", "gas", "vibration", "current">>

FeatureIdx == 1..Len(FEATURES)

\* sensor values and baseline statistics are counted in units of 0.5e-6, so
\* that the 1e-6 of stds.replace(0, 1e-6) is 2 and a standard deviation of 1
\* lies strictly between zero and it
STD_FLOOR == 2

\* `if deviation > 2.0`
SIGNIFICANT == 2

MeanValues == {10}
SampleValues == {4, 10, 13}
StdValues == {0, 1, 3}
Risks == {"NORMAL", "WARNING", "CRITICAL"}

Abs(x) == IF x < 0 THEN 0 - x ELSE x

\* stds.replace(0, 1e-6): an exact zero is replaced, any other value is kept
replace_zero(std) == IF std = 0 THEN STD_FLOOR ELSE std

\* a deviation is the fraction num / den, den > 0
DevLess(a, b) == a.num * b.den < b.num * a.den
DevEq(a, b) == a.num * b.den = b.num * a.den

\* np.abs((sample - means) / stds), per feature
z_scores(sample, means, stds) ==
  [i \in FeatureIdx |->
     [num |-> Abs(sample[i] - means[i]), den |-> replace_zero(stds[i])]]

\* sorted(contributions.items(), key=item[1], reverse=True): a stable sort,
\* entries with equal keys keep the order of the dict, which is FEATURES'
sorted_contrib(contributions) ==
  LET pos(i) == 1 + Cardinality({j \in FeatureIdx :
                                   \/ DevLess(contributions[i], contributions[j])
                                   \/ DevEq(contributions[i], contributions[j]) /\ j < i})
  IN [p \in FeatureIdx |->
        LET i == CHOOSE i \in FeatureIdx : pos(i) = p
        IN [feature |-> FEATURES[i], deviation |-> contributions[i]]]

analyze_sensor_contribution(sample, means, stds) ==
  sorted_contrib(z_scores(sample, means, stds))

\* `deviation > 2.0`
IsSignificant(deviation) == deviation.num > SIGNIFICANT * deviation.den

\* mutant: without the fallback to the highest-deviation feature
primary_issue_NoFallback(risk, top_factors) ==
  IF risk = "NORMAL" THEN <<"NONE">>
  ELSE SelectSeq(top_factors, LAMBDA t : IsSignificant(t.deviation))

\* the contributors joined into primary_issue, "NONE" for a NORMAL reading
primary_issue(risk, top_factors) ==
  IF risk = "NORMAL" THEN <<"NONE">>
  ELSE LET contributors == SelectSeq(top_factors, LAMBDA t : IsSignificant(t.deviation))
       IN IF contributors = <<>> /\ top_factors # <<>>
          THEN <<top_factors[1]>>
          ELSE contributors

\* sensor_report[factor] = {"value": ..., "deviation": ...} for each entry of
\* factor_list
sensor_report(sample, factor_list) ==
  [f \in {factor_list[p].feature : p \in DOMAIN factor_list} |->
     LET p == CHOOSE p \in DOMAIN factor_list : factor_list[p].feature = f
         i == CHOOSE i \in FeatureIdx : FEATURES[i] = f
     IN [value |-> sample[i], deviation |-> factor_list[p].deviation]]

\* a MONITORING manager about to analyse a smoothed reading against the
\* baseline statistics of its calibration file
InitContrib ==
  /\ now = 1
  /\ alive = TRUE
  /\ online = {"esp32_Machine_1"}
  /\ files = [d \in DeviceIds |-> NoFiles]
  /\ devices = {"esp32_Machine_1"}
  /\ mgr = [d \in DeviceIds |->
              IF d \in online
              THEN [NoManager EXCEPT !.state = "MONITORING", !.model = Pickle(1),
                                     !.scaler = Pickle(1),
                                     !.score_mapping = CalibJson(1, <<-10, 10>>)]
              ELSE NoManager]
  /\ published = [d \in DeviceIds |-> 0]
  /\ hist = [d \in DeviceIds |-> NoHist]
  /\ restarts = 0
  /\ busy = Idle
  /\ boundary = NoMessage
  /\ \E sample \in [FeatureIdx -> SampleValues], mean \in MeanValues,
        stds \in [FeatureIdx -> StdValues] :
       report = [op |-> "input", sample |-> sample,
                 baseline_mean |-> [i \in FeatureIdx |-> mean],
                 baseline_std |-> stds]
  /\ ev = [op |-> "init", dev |-> None, ts |-> None, fault |-> "none", pre |-> "NEW",
           post |-> "NEW", crashed |-> FALSE, trained |-> "none", trainedOn |-> <<>>,
           gate |-> "n/a", risk |-> "n/a", prev_class |-> "n/a", health |-> 0, pubs |-> 0,
           raw |-> 0, loaded |-> "none", kind |-> "complete"]

\* self.analyze_sensor_contribution(current_vals)
AnalyzeSensorContribution ==
  /\ report.op = "input"
  /\ report' = [op |-> "analyze", sample |-> report.sample,
                baseline_mean |-> report.baseline_mean,
                baseline_std |-> report.baseline_std,
                top_factors |-> analyze_sensor_contribution(
                                  report.sample, report.baseline_mean, report.baseline_std)]
  /\ UNCHANGED <<now, alive, online, files, devices, mgr, published, hist, restarts, ev,
                 busy, boundary>>

\* the payload handle_monitoring builds for a reading of the given risk
BuildPayload(risk) ==
  /\ report.op = "input"
  /\ \E top_factors \in {analyze_sensor_contribution(
                            report.sample, report.baseline_mean, report.baseline_std)} :
       report' = [op |-> "payload", sample |-> report.sample,
                  baseline_mean |-> report.baseline_mean,
                  baseline_std |-> report.baseline_std,
                  top_factors |-> top_factors,
                  risk |-> risk,
                  primary_issue |-> primary_issue(risk, top_factors),
                  sensors |-> sensor_report(report.sample, top_factors)]
  /\ UNCHANGED <<now, alive, online, files, devices, mgr, published, hist, restarts, ev,
                 busy, boundary>>

NextContrib ==
  \/ AnalyzeSensorContribution
  \/ \E risk \in Risks : BuildPayload(risk)

SpecContrib == InitContrib /\ [][NextContrib]_vars

\* ------------------------------------------- the MQTT ingestion boundary
REQUIRED_FIELDS == {"temperature", "humidity", "gas", "current"}

\* the sensor fields a device may send
SensorFields == {FEATURES[i] : i \in FeatureIdx}

\* what a field of the JSON object holds: nothing, a number, or text that is
\* no number
FieldKinds == {"absent", "number", "text"}

\* the timestamp of a payload: missing, a number (epoch), an ISO-8601 string,
\* an epoch written as a string, or any other text
TimestampKinds == {"absent", "epoch", "iso", "epoch_text", "text"}

Payloads == [fields : [SensorFields -> FieldKinds], timestamp : TimestampKinds]

\* float(payload[f]) and float(payload.get(f, 0)): the number, 0 for the
\* default; text raises ValueError
float_raises(kind) == kind = "text"
float(kind) == IF kind = "number" THEN 7 ELSE 0

\* MQTTClient._parse_timestamp: the current time for a missing timestamp, the
\* given instant for an epoch or ISO value; other text raises ValueError out of
\* float()
_parse_timestamp_raises(timestamp_value) == timestamp_value = "text"
_parse_timestamp(timestamp_value) ==
  IF timestamp_value = "absent" THEN "utcnow" ELSE "given"

\* the dict _on_message builds from a payload that has the required fields
converted(payload) ==
  [temperature |-> float(payload.fields["temperature"]),
   humidity |-> float(payload.fields["humidity"]),
   vibration |-> float(payload.fields["vibration"]),
   gas |-> float(payload.fields["gas"]),
   power |-> float(payload.fields["current"]),
   timestamp |-> _parse_timestamp(payload.timestamp)]

\* MQTTClient._on_message: the calls of on_message_callback it makes, none
\* when a required field is missing or a conversion raises
_on_message(payload) ==
  IF ~(REQUIRED_FIELDS \subseteq {f \in SensorFields : payload.fields[f] # "absent"})
  THEN <<>>
  ELSE IF \/ \E f \in SensorFields : float_raises(payload.fields[f])
          \/ _parse_timestamp_raises(payload.timestamp)
  THEN <<>>
  ELSE <<converted(payload)>>

\* a message arrives on the sensor topic; on_sensor_data stores what the
\* callback is given
OnMessage(payload) ==
  /\ boundary' = [op |-> "message", payload |-> payload,
                  forwarded |-> _on_message(payload)]
  /\ UNCHANGED <<now, alive, online, files, devices, mgr, published, hist, restarts, ev,
                 busy, report>>

NextBoundary == \E payload \in Payloads : OnMessage(payload)

SpecBoundary == Init /\ [][NextBoundary]_vars

\* ------------------------------------------------------------------ claims
Processed == ev.op = "process"
Dev == ev.dev
Rows(d) == files[d].training_file.rows
\* the buffer made of the first n readings of the c-th calibration, in order
Buffer(c, n) == [k \in 1..n |-> <<c, k>>]

\* C1: when the reading that ends a calibration has its training fail, the
\* device is in NEW, never in MONITORING, when process_reading returns.
C1_TrainingFailureLeavesNew ==
  (Processed /\ ev.pre = "CALIBRATING" /\ ev.trained = "failed")
    => mgr[Dev].state = "NEW"

\* C2: the lifecycle state is NEW, CALIBRATING or MONITORING, and a processed
\* reading takes only NEW -> CALIBRATING, CALIBRATING -> MONITORING after a
\* successful training, or a return to NEW after a failed training or a failed
\* artifact load; a MONITORING device with loaded artifacts stays MONITORING.
C2_OnlyLifecycleTransitions ==
  /\ \A d \in DeviceIds : mgr[d].state \in LifecycleStates
  /\ (Processed /\ ~ev.crashed) =>
       \/ ev.post = ev.pre
       \/ ev.pre = "NEW" /\ ev.post = "CALIBRATING"
       \/ ev.pre = "CALIBRATING" /\ ev.post = "MONITORING" /\ ev.trained = "ok"
       \/ ev.post = "NEW" /\ (ev.trained = "failed" \/ ev.fault \in LoadFaults)
  /\ (Processed /\ ev.pre = "MONITORING") => ev.post = "MONITORING"

\* C3: while its readings arrive within T_MAX of the calibration start, a
\* device stays CALIBRATING untrained below 100 buffered samples, and the 100th
\* reading (the NEW-state reading is the 1st) trains on exactly those 100
\* samples and, nothing failing, puts the device in MONITORING on that reading.
C3_TrainsOnHundredth ==
  (Processed /\ ev.pre = "CALIBRATING" /\ ~ev.crashed
     /\ now - hist[Dev].started <= MAX_CALIBRATION_TIME)
    => /\ hist[Dev].fed < CALIBRATION_SAMPLES
            => (ev.trained = "none" /\ mgr[Dev].state = "CALIBRATING")
       /\ hist[Dev].fed >= CALIBRATION_SAMPLES
            => /\ ev.trained # "none"
               /\ ev.trainedOn = Buffer(hist[Dev].cals, CALIBRATION_SAMPLES)
               /\ ev.fault = "none" => mgr[Dev].state = "MONITORING"

C3_Witness ==
  /\ Processed /\ ev.pre = "CALIBRATING" /\ ev.fault = "none"
  /\ now - hist[Dev].started <= MAX_CALIBRATION_TIME
  /\ Len(ev.trainedOn) = CALIBRATION_SAMPLES
  /\ mgr[Dev].state = "MONITORING"

\* C4: after the append, training runs exactly when the buffer holds at least
\* N_CAL samples or more than T_MAX seconds have passed since the calibration
\* started, and it runs on the buffer the device then holds.
C4_DualStoppingCondition ==
  (Processed /\ ev.pre = "CALIBRATING" /\ ~ev.crashed)
    => /\ (ev.trained # "none") <=>
            \/ Len(Rows(Dev)) >= CALIBRATION_SAMPLES
            \/ now - hist[Dev].started > MAX_CALIBRATION_TIME
       /\ ev.trained # "none" => ev.trainedOn = Rows(Dev)

C4_Witness ==
  /\ Processed /\ ev.pre = "CALIBRATING" /\ ev.trained = "ok"
  /\ Len(ev.trainedOn) = 81
  /\ now - hist[Dev].started > MAX_CALIBRATION_TIME

C6_DuplicateDropped ==
  [][\A d \in devices, ts \in TsValues :
       (ev'.op \in {"duplicate", "process"} /\ ev'.dev = d /\ ev'.ts = ts
          /\ hist[d].last_ts = ts)
         => (mgr'[d] = mgr[d] /\ files'[d] = files[d] /\ published'[d] = published[d])]_vars

C6_Witness ==
  /\ ev.op = "duplicate"
  /\ mgr[Dev].state = "MONITORING"
  /\ Len(mgr[Dev].health_history) = 2
  /\ published[Dev] = 2

\* C7: a MONITORING reading publishes a payload only when the gate decides to
\* notify; a suppressed reading publishes nothing.
C7_PublishOnlyOnNotify ==
  (Processed /\ ev.gate = "suppress") => ev.pubs = 0

\* C8: from an empty health history, three consecutive readings with health
\* below 50 give the gate decision false, false, true.
C8_PersistentCriticalOnThird ==
  LET hh == mgr[Dev].health_history
  IN (Processed /\ ev.gate # "n/a" /\ published[Dev] = Len(hh)
        /\ \A i \in 1..Len(hh) : hh[i] < 50)
       => /\ Len(hh) \in {1, 2} => ev.gate = "suppress"
          /\ Len(hh) = 3 => ev.gate = "notify"

\* C9: a WARNING reading notifies exactly when the previous classification was
\* not WARNING, a NORMAL reading exactly when it was not NORMAL; a manager's
\* first reading is compared against NORMAL.
C9_EdgeTriggered ==
  (Processed /\ ev.gate # "n/a")
    => /\ ev.risk = "WARNING" => (ev.gate = "notify" <=> ev.prev_class # "WARNING")
       /\ ev.risk = "NORMAL" => (ev.gate = "notify" <=> ev.prev_class # "NORMAL")
       /\ Len(mgr[Dev].health_history) = 1 /\ hist[Dev].scored = 1
            => ev.prev_class = "NORMAL"

C9_Witness ==
  /\ Processed /\ ev.risk = "WARNING" /\ ev.prev_class = "WARNING"
  /\ ev.gate = "suppress"
  /\ Len(mgr[Dev].health_history) = 3

\* C10: after a scored MONITORING reading last_risk is that reading's risk,
\* whether the gate notified or suppressed.
C10_LastRiskIsCurrentRisk ==
  (Processed /\ ev.gate # "n/a") => mgr[Dev].last_risk = ev.risk

C10_Witness ==
  /\ Processed /\ ev.gate = "suppress"
  /\ ev.risk = "CRITICAL" /\ ev.prev_class = "NORMAL"
  /\ mgr[Dev].last_risk = "CRITICAL"

\* C11: the risk the MONITORING pipeline gives a scored reading is the one
\* classify_risk gives its health: NORMAL above 80, WARNING above 50 up to 80,
\* CRITICAL at 50 and below.
C11_RiskThresholds ==
  (Processed /\ ev.gate # "n/a") => ev.risk = classify_risk(ev.health)

\* C12: with min_anom < 0 < max_nice, map_health gives 0 at min_anom, 50 at 0,
\* 100 at max_nice, 0 below min_anom and 100 above max_nice, and always a value
\* within [0, 100].
C12_HealthAnchors ==
  LET lo == mgr[Dev].score_mapping.min_anom
      hi == mgr[Dev].score_mapping.max_nice
  IN (ev.op = "map_health" /\ lo < 0 /\ 0 < hi)
       => /\ 0 <= ev.health /\ ev.health <= 100
          /\ ev.raw = lo => ev.health = 0
          /\ ev.raw = 0 => ev.health = 50
          /\ ev.raw = hi => ev.health = 100
          /\ ev.raw < lo => ev.health = 0
          /\ ev.raw > hi => ev.health = 100

C12_Witness ==
  /\ ev.op = "map_health"
  /\ mgr[Dev].score_mapping.min_anom = -5 /\ mgr[Dev].score_mapping.max_nice = 2
  /\ ev.raw = 0 /\ ev.health = 50

\* C13: map_health never decreases when the raw score grows, whatever the
\* anchors, degenerate ones (min_anom >= 0 or max_nice <= 0) included.
C13_HealthMonotonic ==
  ev.op = "map_health"
    => \A r \in RawScores :
         ev.raw < r => ev.health <= map_health(mgr[Dev].score_mapping, r)

C13_Witness ==
  /\ ev.op = "map_health"
  /\ mgr[Dev].score_mapping.min_anom = 0 /\ mgr[Dev].score_mapping.max_nice = 0
  /\ ev.raw = -1 /\ ev.health = 0
  /\ map_health(mgr[Dev].score_mapping, 0) = 100

\* C14: a load_artifacts that cannot load the complete set (a file missing or
\* corrupt, or the load raising) leaves the device in NEW with NEW persisted,
\* whether it ran in the constructor or at the end of a calibration; the next
\* reading of a NEW device starts a fresh calibration; and a reading is scored
\* only with a model, a scaler and a calibration loaded.
C14_LoadFailureForcesNew ==
  /\ (ev.loaded = "failed" /\ ev.pre = "CALIBRATING")
       => /\ mgr[Dev].state = "NEW"
          /\ ev.fault \notin {"loadnew_eopen", "loadnew_etrunc"}
               => files[Dev].state_file = "NEW"
  /\ (ev.loaded = "failed" /\ ev.pre # "CALIBRATING")
       => /\ ev.pre = "NEW"
          /\ ev.op \in {"no_timestamp", "duplicate"}
               => (mgr[Dev].state = "NEW" /\ files[Dev].state_file = "NEW")
  /\ (Processed /\ ev.pre = "NEW" /\ ~ev.crashed)
       => /\ mgr[Dev].state = "CALIBRATING"
          /\ Rows(Dev) = Buffer(hist[Dev].cals, 1)
  /\ (Processed /\ ev.gate # "n/a")
       => /\ mgr[Dev].model.valid
          /\ mgr[Dev].scaler.valid
          /\ mgr[Dev].score_mapping.valid

C14_Witness ==
  /\ Processed /\ ev.loaded = "failed" /\ ev.pre = "NEW" /\ ev.fault = "none"
  /\ ~files[Dev].calibration_file.exists
  /\ mgr[Dev].state = "CALIBRATING"
  /\ Rows(Dev) = Buffer(2, 1)

\* C15: a processed reading of which a sensor field is missing or holds text
\* leaves the lifecycle state as it was, is not appended to the training CSV
\* (so the CSV holds fewer rows than readings were handed over) and is not
\* scored.
C15_MalformedSkipped ==
  (Processed /\ ev.kind # "complete" /\ ~ev.crashed)
    => /\ ev.post = ev.pre
       /\ ev.pre = "CALIBRATING" => Len(Rows(Dev)) < hist[Dev].fed
       /\ ev.gate = "n/a"

\* C16: no failure while a reading is processed ends the ingestion loop: the
\* run() loop is never left by an exception.
C16_LoopSurvives == alive

\* C17: the model, the scaler and the calibration a reading is scored with were
\* written by one and the same training cycle.
C17_OneTrainingCycle ==
  (Processed /\ ev.gate # "n/a")
    => /\ mgr[Dev].model.cycle = mgr[Dev].scaler.cycle
       /\ mgr[Dev].scaler.cycle = mgr[Dev].score_mapping.cycle

\* C18: when process_reading has returned, the state in the state file is the
\* state of the manager.
C18_PersistedIsInMemory ==
  (Processed /\ ~ev.crashed) => files[Dev].state_file = mgr[Dev].state

\* C19: the training CSV of a CALIBRATING device holds exactly the readings
\* handed over since its last start_calibration, in arrival order, one more
\* per reading, and that is the buffer a training runs on: no row of an
\* earlier calibration attempt is left in it.
C19_BufferOfThisCalibration ==
  /\ \A d \in devices :
       (alive /\ mgr[d].state = "CALIBRATING")
         => Rows(d) = Buffer(hist[d].cals, hist[d].fed)
  /\ (Processed /\ ev.trained # "none")
       => ev.trainedOn = Buffer(hist[Dev].cals, hist[Dev].fed)

C19_Witness ==
  /\ Processed /\ ev.trained # "none"
  /\ hist[Dev].cals = 2 /\ hist[Dev].cycles = 2
  /\ ev.trainedOn = Buffer(2, CALIBRATION_SAMPLES)

\* C20: a reading whose timestamp is earlier than the last one processed for
\* its device is not handed to process_reading.
C20_OutOfOrderFiltered ==
  [][\A d \in devices :
       (ev'.op = "process" /\ ev'.dev = d)
         => ~(TsRank(ev'.ts) < TsRank(mgr[d].last_processed_ts))]_vars

\* C21: an iteration of the loop for device a leaves every other device b as
\* it was: its manager (state, last processed timestamp, health history, last
\* risk, loaded artifacts), its files (state, training CSV, artifacts), its
\* published output and its place in the registry.
C21_DeviceIsolation ==
  [][\A a \in DeviceIds, b \in DeviceIds :
       (a # b /\ ev'.dev = a /\ ev'.op # "tick")
         => /\ mgr'[b] = mgr[b]
            /\ files'[b] = files[b]
            /\ published'[b] = published[b]
            /\ (b \in devices') = (b \in devices)]_vars

C21_Witness ==
  /\ Processed /\ Dev = "device2" /\ ev.pre = "NEW"
  /\ Len(Rows("device2")) = 1
  /\ mgr["esp32_Machine_1"].state = "MONITORING"
  /\ Len(mgr["esp32_Machine_1"].health_history) = 1
  /\ files["esp32_Machine_1"].model_file = Pickle(1)

\* C22: while train_model runs for one device, a reading of every other
\* device in the data tree can be processed.
C22_TrainingDoesNotBlock ==
  busy # Idle
    => \A b \in online \ {busy[1]} : \E ts \in TsValues : ENABLED Deliver(b, ts)

\* C23: the health history never holds more than 3 values; a scored reading
\* appends its health and drops the oldest value beyond three, any other step
\* leaves the history as it is (so that after n scored readings it holds the
\* last min(n, 3) health values in arrival order); and the health of a reading
\* is map_health of its raw score, whatever the history holds.
C23_HealthHistoryWindow ==
  /\ [](\A d \in DeviceIds : Len(mgr[d].health_history) <= HISTORY_MAXLEN)
  /\ [](\A d \in DeviceIds : d \notin devices => mgr[d].health_history = <<>>)
  /\ [][\A d \in DeviceIds :
          LET old == mgr[d].health_history
              all == Append(old, ev'.health)
              scored == ev'.op = "process" /\ ev'.dev = d /\ ev'.gate # "n/a"
          IN /\ scored
                  => /\ mgr'[d].health_history =
                          IF Len(all) <= HISTORY_MAXLEN THEN all
                          ELSE SubSeq(all, Len(all) - HISTORY_MAXLEN + 1, Len(all))
                     /\ ev'.health = map_health(mgr'[d].score_mapping, ev'.raw)
             /\ ~scored => mgr'[d].health_history = old]_vars

C23_Witness ==
  /\ Processed /\ ev.gate # "n/a"
  /\ published[Dev] = 4
  /\ mgr[Dev].health_history = <<25, 90, 45>>
  /\ ev.health = 45

\* C24: analyze_sensor_contribution returns one entry per tracked feature,
\* each with the deviation |value - mean| / max(std, eps), ordered by
\* non-increasing deviation with equal deviations in the declared feature
\* order; for a reading equal to the baseline mean every deviation is 0 and
\* the order is the declared one.
C24_RankedByFlooredDeviation ==
  report.op = "analyze"
    => LET t == report.top_factors
           idx(p) == CHOOSE i \in FeatureIdx : FEATURES[i] = t[p].feature
           floored(i) ==
             [num |-> Abs(report.sample[i] - report.baseline_mean[i]),
              den |-> IF report.baseline_std[i] < STD_FLOOR THEN STD_FLOOR
                      ELSE report.baseline_std[i]]
       IN /\ DOMAIN t = FeatureIdx
          /\ \A i \in FeatureIdx : \E p \in FeatureIdx : t[p].feature = FEATURES[i]
          /\ \A p \in FeatureIdx : DevEq(t[p].deviation, floored(idx(p)))
          /\ \A p \in FeatureIdx, q \in FeatureIdx :
               p < q => /\ ~DevLess(floored(idx(p)), floored(idx(q)))
                        /\ DevEq(floored(idx(p)), floored(idx(q))) => idx(p) < idx(q)
          /\ report.sample = report.baseline_mean
               => \A p \in FeatureIdx : t[p].deviation.num = 0 /\ idx(p) = p

\* C25: the payload of a reading whose risk is not NORMAL has a primary_issue
\* that is never empty and lists, in ranking order, exactly the entries whose
\* deviation exceeds 2.0 (a prefix of the ranking), or the first entry of the
\* ranking, which no entry exceeds, when none does; the sensors map of every
\* payload has one entry for each of the five tracked features.
C25_PrimaryIssueAndSensors ==
  report.op = "payload"
    => LET t == report.top_factors
           significant == {p \in FeatureIdx : t[p].deviation.num > 2 * t[p].deviation.den}
       IN /\ report.risk # "NORMAL"
               => /\ report.primary_issue # <<>>
                  /\ \A p \in significant, q \in FeatureIdx \ significant : p < q
                  /\ significant # {}
                       => report.primary_issue = SubSeq(t, 1, Cardinality(significant))
                  /\ significant = {}
                       => /\ report.primary_issue = <<t[1]>>
                          /\ \A p \in FeatureIdx :
                               ~DevLess(t[1].deviation, t[p].deviation)
          /\ DOMAIN report.sensors = {FEATURES[i] : i \in FeatureIdx}
          /\ Cardinality(DOMAIN report.sensors) = 5

C25_Witness ==
  /\ report.op = "payload" /\ report.risk = "CRITICAL"
  /\ Len(report.primary_issue) = 2
  /\ report.primary_issue[1].feature = "gas"
  /\ report.primary_issue[2].feature = "temperature"
  /\ report.primary_issue[2].deviation = [num |-> 3, den |-> 1]

\* C26: a message that lacks any one of temperature, humidity, gas, vibration,
\* current is not forwarded to the callback.
C26_MissingFieldRejected ==
  (boundary.op = "message"
     /\ \E f \in SensorFields : boundary.payload.fields[f] = "absent")
    => boundary.forwarded = <<>>

\* C27: a reading that arrives without a timestamp for a registered
\* CALIBRATING device is appended to its training CSV like any other reading.
C27_NoTimestampProcessed ==
  [][\A d \in DeviceIds :
       (ev'.op = "no_timestamp" /\ ev'.dev = d /\ d \in devices
          /\ mgr[d].state = "CALIBRATING")
         => Len(files'[d].training_file.rows) = Len(files[d].training_file.rows) + 1]_vars

\* C28: a device whose state is MONITORING, in a loop that is still running,
\* has its model, scaler and calibration mapping loaded.
C28_MonitoringHasArtifacts ==
  \A d \in devices :
    (alive /\ mgr[d].state = "MONITORING")
      => /\ mgr[d].model.valid
         /\ mgr[d].scaler.valid
         /\ mgr[d].score_mapping.valid

C30_CeilingSurvivesRestart ==
  (Processed /\ restarts > 0 /\ ev.pre = "CALIBRATING" /\ ~ev.crashed
     /\ now - hist[Dev].started > MAX_CALIBRATION_TIME)
    => ev.trained # "none"

====
